---- MODULE Spec2Model ----
(***************************************************************************)
(* Model of the keeper client library: the transaction-submission loop     *)
(* Transact.transact_async (src/keeper/api/__init__.py) driven against an  *)
(* abstract Ethereum node.                                                 *)
(*                                                                         *)
(* One asyncio event loop runs the submissions: a coroutine runs without   *)
(* interruption by another coroutine until it reaches                      *)
(* `await asyncio.sleep(0.25)` or returns (variable running).  The node    *)
(* (Include) and the clock (Tick) are outside the event loop and move at   *)
(* any moment.                                                             *)
(*                                                                         *)
(* Spec runs one submission with every combination of keyword arguments,   *)
(* against both providers; SpecConc runs NumTasks submissions side by side *)
(* on a narrower set of inputs.                                            *)
(***************************************************************************)
EXTENDS Integers, Sequences, FiniteSets, TLC

\* ---------------------------------------------------------------- bounds
NumTasks == 2          \* concurrent transact_async coroutines
MaxTime == 2           \* the clock stops after this many seconds
MaxOffers == 3         \* offers the market contract ever holds
MaxAmount == 3         \* largest amount (raw Wad value) of an offer
\* one unit of a Wad: 10**18 in the code, beyond the integers of TLC. Amounts
\* on the market are many units' worth of raw value, so MaxAmount exceeds it.
WadScale == 2
MaxArg == 3            \* largest constructor argument of a gas pricer
MaxElapsed == 4        \* longest time, in seconds, a pricer is asked about
MaxChars == 3          \* longest string a Calldata is constructed from
\* the hexadecimal digits of an address: 40 in the code, fewer here so that
\* every string of that length, and of one digit less and more, is tried
AddressDigits == 2

Tasks == 1..NumTasks

\* ------------------------------------------------------------- constants
\* Python's None where the code holds an Optional[int]
None == -1
\* `return gas_estimate + 100000`
DefaultGasBuffer == 100000

\* topic[0] of an ERC20 Transfer event, and of any other event
TransferTopic == "0xddf252ad"
OtherTopic == "0x00000000"

\* ---------------------------------------------------------------- inputs
\* gas pricing algorithms handed in as kwargs['gas_price']
DefaultGasPrice == [kind |-> "Default", value |-> None, increase_by |-> 0, every_secs |-> 1]

\* a constructor that failed: there is no pricer
InvalidConfig == [kind |-> "InvalidConfig", value |-> None, increase_by |-> 0, every_secs |-> 1]

\* a FixedGasPrice that takes any price
FixedGasPriceUnchecked(v) == [kind |-> "Fixed", value |-> v, increase_by |-> 0, every_secs |-> 1]

\* FixedGasPrice.__init__
FixedGasPrice(v) ==
    IF v > 0 THEN [kind |-> "Fixed", value |-> v, increase_by |-> 0, every_secs |-> 1]
    ELSE InvalidConfig

\* an IncreasingGasPrice that does not look at increase_by
IncreasingGasPriceAnyStep(initial, inc, every) ==
    IF every > 0
    THEN [kind |-> "Increasing", value |-> initial, increase_by |-> inc, every_secs |-> every]
    ELSE InvalidConfig

\* IncreasingGasPrice.__init__
IncreasingGasPrice(initial, inc, every) ==
    IF inc > 0 /\ every > 0
    THEN [kind |-> "Increasing", value |-> initial, increase_by |-> inc, every_secs |-> every]
    ELSE InvalidConfig

\* an object whose get_gas_price raises
RaisingGasPrice == [kind |-> "Raising", value |-> None, increase_by |-> 0, every_secs |-> 1]

GasPrices == {DefaultGasPrice, FixedGasPrice(7), IncreasingGasPrice(5, 1, 1), RaisingGasPrice}

\* stands for a missing 'gas_price' key
NoGasPrice == [kind |-> "Absent", value |-> None, increase_by |-> 0, every_secs |-> 1]

\* the keyword arguments of transact_async; None marks a missing key
KwargsChoices ==
    [gas : {None, 21000}, gas_buffer : {None, 500}, gas_price : GasPrices \cup {NoGasPrice}]

\* the keyword arguments tried when two coroutines run side by side
ConcKwargsChoices ==
    { [gas |-> None, gas_buffer |-> None, gas_price |-> NoGasPrice],
      [gas |-> None, gas_buffer |-> 500,  gas_price |-> IncreasingGasPrice(5, 1, 1)] }

GasEstimates == {30000}

\* the logs the node may put in a receipt: null, none, or some entries
LogChoices ==
    { [null |-> TRUE,  entries |-> <<>>],
      [null |-> FALSE, entries |-> <<>>],
      [null |-> FALSE, entries |-> << [topics |-> <<TransferTopic>>, data |-> 1] >>],
      [null |-> FALSE, entries |-> << [topics |-> <<OtherTopic>>, data |-> 2],
                                      [topics |-> <<>>, data |-> 3] >>] }

NoLogs == [null |-> TRUE, entries |-> <<>>]

VARIABLES
    \* the environment
    now,              \* time.time(), in whole seconds
    chain,            \* the node's transactions, indexed by transaction hash
    testerProvider,   \* web3.currentProvider is an EthereumTesterProvider
    pendingReceipts,  \* the node answers a pending transaction with a receipt
                      \* whose blockNumber is null (else with null)
    \* the event loop
    running,          \* the coroutine that holds the thread, 0 if none
    pc,               \* where each coroutine stands
    \* locals of transact_async, per coroutine
    kwargs, gas_estimate, nonce, gas, tx_hashes, initial_time, gas_price_last,
    result,           \* what the coroutine returned or raised
    \* history, per coroutine
    estimateCalls,    \* number of estimated_gas calls
    nonceCalls,       \* number of next_nonce calls
    raisedAt,         \* the call that raised inside the coroutine, "" if none did
    attempts,         \* every _func call: what was sent and whether it was accepted
    lastPollPrice,    \* the gas_price_value computed at the latest pass of the loop
    polled,           \* the hashes queried at the latest pass of the loop
    priceChanges,     \* passes whose gas_price_value differed from the pass before
    \* the market contract and one SimpleMarket / MatchingMarket instance
    offers,           \* the contract's `offers` mapping, ids 1..last_offer_id
    none_offers,      \* self._none_offers
    candidate,        \* the arguments of the position() call to come
    call,             \* the latest call made on the instance, and what it did
    absentSeen,       \* history: the ids for which get_offer has returned None
    \* a value class of the library put to the test
    probe,            \* the arguments it is constructed and called with
    answer,           \* what construction and the calls gave
    \* the filter threads of the process
    filter_threads,   \* the module's list of registered filter threads
    stoppedThreads,   \* the registered threads, by index, that have stopped watching
    registryCall      \* the latest call that touched the registry, and what it did

envVars == <<now, chain, testerProvider, pendingReceipts>>
localVars == <<kwargs, gas_estimate, nonce, gas, tx_hashes, initial_time, gas_price_last>>
histVars == <<estimateCalls, nonceCalls, raisedAt, attempts, lastPollPrice, polled, priceChanges>>
marketVars == <<offers, none_offers, candidate, call, absentSeen>>
transactVars == <<envVars, running, pc, localVars, result, histVars>>
valueVars == <<probe, answer>>
registryVars == <<filter_threads, stoppedThreads, registryCall>>
vars == <<transactVars, marketVars, valueVars, registryVars>>


\* ------------------------------------------------------------- the node
\* the transactions of the account that are pending or mined, by nonce
UsedNonces(c) == {c[h].nonce : h \in 1..Len(c)}

\* next_nonce(web3, address): the first nonce that no pending or mined
\* transaction of the account holds
NextNonce(c) == CHOOSE n \in 0..Len(c) : n \notin UsedNonces(c) /\ \A m \in 0..(n - 1) : m \in UsedNonces(c)

\* web3.eth.getTransactionReceipt(transaction_hash): null, or the receipt,
\* whose blockNumber is null while the transaction is pending
GetTransactionReceipt(c, h, pend) ==
    IF c[h].blockNumber # None
    THEN [null |-> FALSE, transactionHash |-> h, blockNumber |-> c[h].blockNumber,
          gasUsed |-> c[h].gas, logs |-> c[h].logs]
    ELSE IF pend
    THEN [null |-> FALSE, transactionHash |-> h, blockNumber |-> None,
          gasUsed |-> None, logs |-> NoLogs]
    ELSE [null |-> TRUE, transactionHash |-> h, blockNumber |-> None,
          gasUsed |-> None, logs |-> NoLogs]

Mined(c) == {h \in 1..Len(c) : c[h].blockNumber # None}

\* ------------------------------------------------------------- Receipt
\* a test that finds the Transfer signature in any topic of the log
IsTransferLogAnyTopic(l) == \E i \in 1..Len(l.topics) : l.topics[i] = TransferTopic

IsTransferLog(l) == Len(l.topics) > 0 /\ l.topics[1] = TransferTopic

\* Transfer(...) decoded from one log
TransferOf(l) == [value |-> l.data]

RECURSIVE Transfers(_)
Transfers(entries) ==
    IF entries = <<>> THEN <<>>
    ELSE (IF IsTransferLog(Head(entries)) THEN <<TransferOf(Head(entries))>> ELSE <<>>)
         \o Transfers(Tail(entries))

\* a Receipt that is successful whatever its logs
ReceiptAlwaysSuccessful(receipt) ==
    [kind |-> "Receipt",
     transaction_hash |-> receipt.transactionHash,
     gas_used |-> receipt.gasUsed,
     transfers |-> Transfers(receipt.logs.entries),
     successful |-> TRUE]

\* Receipt.__init__
Receipt(receipt) ==
    LET receipt_logs == receipt.logs
        successful == (~receipt_logs.null) /\ Len(receipt_logs.entries) > 0
    IN [kind |-> "Receipt",
        transaction_hash |-> receipt.transactionHash,
        gas_used |-> receipt.gasUsed,
        transfers |-> IF successful THEN Transfers(receipt_logs.entries) ELSE <<>>,
        successful |-> successful]

\* outcomes of transact_async other than a Receipt
Pending == [kind |-> "Pending"]
ReturnedNone == [kind |-> "None"]
Raised == [kind |-> "Raised"]
\* _get_receipt returning None
NoReceipt == [kind |-> "NoReceipt"]

\* Transact._get_receipt
GetReceiptIgnoringBlock(c, h, pend) ==
    LET receipt == GetTransactionReceipt(c, h, pend)
    IN IF ~receipt.null THEN Receipt(receipt) ELSE NoReceipt

\* Transact._get_receipt
GetReceipt(c, h, pend) ==
    LET receipt == GetTransactionReceipt(c, h, pend)
    IN IF (~receipt.null) /\ receipt.blockNumber # None THEN Receipt(receipt) ELSE NoReceipt

\* a loop over the hashes from the newest to the oldest
RECURSIVE FirstReceiptNewestFirst(_, _, _)
FirstReceiptNewestFirst(c, hashes, pend) ==
    IF hashes = <<>> THEN NoReceipt
    ELSE LET receipt == GetReceipt(c, hashes[Len(hashes)], pend)
         IN IF receipt # NoReceipt THEN receipt
            ELSE FirstReceiptNewestFirst(c, SubSeq(hashes, 1, Len(hashes) - 1), pend)

\* a loop that looks only at the transaction sent last
FirstReceiptLatestOnly(c, hashes, pend) ==
    IF hashes = <<>> THEN NoReceipt ELSE GetReceipt(c, hashes[Len(hashes)], pend)

\* the `for tx_hash in tx_hashes` loop: the first receipt found, in list order
RECURSIVE FirstReceipt(_, _, _)
FirstReceipt(c, hashes, pend) ==
    IF hashes = <<>> THEN NoReceipt
    ELSE LET receipt == GetReceipt(c, Head(hashes), pend)
         IN IF receipt # NoReceipt THEN receipt ELSE FirstReceipt(c, Tail(hashes), pend)

\* the hashes that loop queries, in order: it stops at the first receipt
RECURSIVE QueriesMade(_, _, _)
QueriesMade(c, hashes, pend) ==
    IF hashes = <<>> THEN <<>>
    ELSE IF GetReceipt(c, Head(hashes), pend) # NoReceipt THEN <<Head(hashes)>>
    ELSE <<Head(hashes)>> \o QueriesMade(c, Tail(hashes), pend)

\* ------------------------------------------------------------ Transact
\* a _gas that looks at `gas_buffer` before `gas`
GasBufferFirst(estimate, kw) ==
    IF kw.gas_buffer # None THEN estimate + kw.gas_buffer
    ELSE IF kw.gas # None THEN kw.gas
    ELSE estimate + DefaultGasBuffer

\* Transact._gas
Gas(estimate, kw) ==
    IF kw.gas # None THEN kw.gas
    ELSE IF kw.gas_buffer # None THEN estimate + kw.gas_buffer
    ELSE estimate + DefaultGasBuffer

\* gas_price = kwargs['gas_price'] if ('gas_price' in kwargs) else DefaultGasPrice()
GasPriceOfFixedDefault(kw) ==
    IF kw.gas_price # NoGasPrice THEN kw.gas_price ELSE FixedGasPrice(7)

\* gas_price = kwargs['gas_price'] if ('gas_price' in kwargs) else DefaultGasPrice()
GasPriceOf(kw) == IF kw.gas_price # NoGasPrice THEN kw.gas_price ELSE DefaultGasPrice

\* GetGasPrice with the remainder in place of the quotient
GetGasPriceRemainder(p, time_elapsed) ==
    IF p.kind = "Default" THEN None
    ELSE IF p.kind = "Fixed" THEN p.value
    ELSE p.value + (time_elapsed % p.every_secs) * p.increase_by

\* GasPrice.get_gas_price(time_elapsed)
GetGasPrice(p, time_elapsed) ==
    IF p.kind = "Default" THEN None
    ELSE IF p.kind = "Fixed" THEN p.value
    ELSE p.value + (time_elapsed \div p.every_secs) * p.increase_by

\* the transaction dictionary Transact._func hands to the node
TxDict(n, g, price, tester) ==
    [gas |-> g, nonce |-> IF tester THEN None ELSE n, gasPrice |-> price]

\* the node takes a transaction in; it fills in a missing nonce itself
Accept(c, d, t) ==
    Append(c, [nonce |-> IF d.nonce = None THEN NextNonce(c) ELSE d.nonce,
               gas |-> d.gas, gasPrice |-> d.gasPrice, task |-> t,
               blockNumber |-> None, logs |-> NoLogs])

\* sending only while nothing has been sent: a changed price is ignored
\* a list that takes the new hash in front
PrependHash(hashes, tx_hash) == <<tx_hash>> \o hashes

\* tx_hashes.append(tx_hash)
AppendHash(hashes, tx_hash) == Append(hashes, tx_hash)

ShouldSendFirstOnly(hashes, gas_price_value, last) == Len(hashes) = 0

\* a loop that sends at every pass
ShouldSendAlways(hashes, gas_price_value, last) == TRUE

\* `if len(tx_hashes) == 0 or gas_price_value != gas_price_last`
ShouldSend(hashes, gas_price_value, last) == Len(hashes) = 0 \/ gas_price_value # last

\* a rejected _func call that is never re-raised, or always
ReraiseNever(hashes) == FALSE
ReraiseAlways(hashes) == TRUE

\* `if len(tx_hashes) == 0: raise` in the handler of a rejected _func call
Reraise(hashes) == Len(hashes) = 0

\* ------------------------------------------------- the market contract
\* token addresses
Tokens == {"0xaa", "0xbb", "0xcc"}

\* the (sell token, buy token) pairs offers are made on
PairChoices == {<<"0xaa", "0xbb">>, <<"0xaa", "0xcc">>, <<"0xbb", "0xaa">>}

\* a slot of the `offers` mapping that holds no offer (never set, or deleted)
NoOffer ==
    [sell_how_much |-> 0, sell_which_token |-> "0x00", buy_how_much |-> 0,
     buy_which_token |-> "0x00", owner |-> "0x00", active |-> FALSE, timestamp |-> 0]

\* an offer as the contract stores it after offer(...)
StoredOffer(sell, sell_token, buy, buy_token) ==
    [sell_how_much |-> sell, sell_which_token |-> sell_token, buy_how_much |-> buy,
     buy_which_token |-> buy_token, owner |-> "0x11", active |-> TRUE, timestamp |-> 1]

\* the offers that may be made: any of the pairs, any amounts
OfferChoices ==
    {StoredOffer(sell, pair[1], buy, pair[2]) :
        sell \in 1..MaxAmount, buy \in 1..MaxAmount, pair \in PairChoices}

\* the offers made while the instance is watched over the contract's life
MarketOfferChoices == {StoredOffer(2, "0xaa", 1, "0xbb"), StoredOffer(1, "0xbb", 1, "0xaa")}

\* the arguments of position(): have_token, have_amount, want_token, want_amount
CandidateChoices ==
    [have_token : {"0xaa"}, have_amount : 1..MaxAmount,
     want_token : {"0xbb"}, want_amount : 1..MaxAmount]

NoCandidate == [have_token |-> "0x00", have_amount |-> 0, want_token |-> "0x00", want_amount |-> 0]

\* self._contract.call().last_offer_id()
GetLastOfferId(c) == Len(c)

\* self._contract.call().offers(offer_id)
Offers(c, offer_id) == IF offer_id \in 1..Len(c) THEN c[offer_id] ELSE NoOffer

\* --------------------------------------------- SimpleMarket, MatchingMarket
\* OfferInfo.__init__
OfferInfo(offer_id, array) ==
    [offer_id |-> offer_id,
     sell_how_much |-> array.sell_how_much,
     sell_which_token |-> array.sell_which_token,
     buy_how_much |-> array.buy_how_much,
     buy_which_token |-> array.buy_which_token,
     owner |-> array.owner,
     timestamp |-> array.timestamp]

\* get_offer returning None
NoneOffer == OfferInfo(None, NoOffer)

\* get_offer that never looks into _none_offers
GetOfferUncached(cache, c, offer_id) ==
    LET array == Offers(c, offer_id)
    IN IF array.active # TRUE
       THEN [ret |-> NoneOffer, reads |-> <<offer_id>>, cache |-> cache \cup {offer_id}]
       ELSE [ret |-> OfferInfo(offer_id, array), reads |-> <<offer_id>>, cache |-> cache]

\* a get_offer that looks again at an id of _none_offers and takes it out
\* when an offer is there
GetOfferForgetful(cache, c, offer_id) ==
    LET array == Offers(c, offer_id)
    IN IF array.active # TRUE
       THEN [ret |-> NoneOffer, reads |-> <<offer_id>>, cache |-> cache \cup {offer_id}]
       ELSE [ret |-> OfferInfo(offer_id, array), reads |-> <<offer_id>>,
             cache |-> cache \ {offer_id}]

\* SimpleMarket.get_offer: what it returns, the storage reads it makes and
\* _none_offers afterwards
GetOffer(cache, c, offer_id) ==
    IF offer_id \in cache
    THEN [ret |-> NoneOffer, reads |-> <<>>, cache |-> cache]
    ELSE LET array == Offers(c, offer_id)
         IN IF array.active # TRUE
            THEN [ret |-> NoneOffer, reads |-> <<offer_id>>, cache |-> cache \cup {offer_id}]
            ELSE [ret |-> OfferInfo(offer_id, array), reads |-> <<offer_id>>, cache |-> cache]

\* range(last) taken as the ids themselves
IdsToScanFromZero(last) == [i \in 1..last |-> i - 1]

\* `offer_id + 1 for offer_id in range(self.get_last_offer_id())`
IdsToScan(last) == [i \in 1..last |-> (i - 1) + 1]

\* the get_offer calls of active_offers, one id after the other
RECURSIVE ScanOffers(_, _, _)
ScanOffers(cache, c, ids) ==
    IF ids = <<>>
    THEN [ret |-> <<>>, asked |-> <<>>, reads |-> <<>>, cache |-> cache]
    ELSE LET first == GetOffer(cache, c, Head(ids))
             rest == ScanOffers(first.cache, c, Tail(ids))
         IN [ret |-> (IF first.ret # NoneOffer THEN <<first.ret>> ELSE <<>>) \o rest.ret,
             asked |-> <<Head(ids)>> \o rest.asked,
             reads |-> first.reads \o rest.reads,
             cache |-> rest.cache]

\* SimpleMarket.active_offers
ActiveOffers(cache, c) == ScanOffers(cache, c, IdsToScan(GetLastOfferId(c)))

\* Wad.__truediv__: the quotient as a Wad, cut to whole units of 1/WadScale
WadDiv(a, b) == (a * WadScale) \div b

\* the sort key of position(): o.sell_how_much / o.buy_how_much
Price(o) == WadDiv(o.sell_how_much, o.buy_how_much)

\* a filter that forgets the token the offer is paid with
EligibleAnyBuyToken(o, cand) ==
    /\ o.sell_which_token = cand.have_token
    /\ Price(o) >= WadDiv(cand.have_amount, cand.want_amount)

\* the filter of position()
Eligible(o, cand) ==
    /\ o.sell_which_token = cand.have_token
    /\ o.buy_which_token = cand.want_token
    /\ Price(o) >= WadDiv(cand.have_amount, cand.want_amount)

\* an insertion that puts the offer before those of equal price
InsertBeforeEquals(sorted, o) ==
    LET n == Cardinality({i \in 1..Len(sorted) : Price(sorted[i]) < Price(o)})
    IN SubSeq(sorted, 1, n) \o <<o>> \o SubSeq(sorted, n + 1, Len(sorted))

\* sorted() is stable: an offer goes after those of lower or equal price
\* that came before it
InsertSorted(sorted, o) ==
    LET n == Cardinality({i \in 1..Len(sorted) : Price(sorted[i]) <= Price(o)})
    IN SubSeq(sorted, 1, n) \o <<o>> \o SubSeq(sorted, n + 1, Len(sorted))

\* sorted(offers, key=lambda o: o.sell_how_much / o.buy_how_much)
RECURSIVE Sorted(_)
Sorted(list) ==
    IF list = <<>> THEN <<>>
    ELSE InsertSorted(Sorted(SubSeq(list, 1, Len(list) - 1)), list[Len(list)])

\* MatchingMarket.position, given what active_offers() returned
PositionOf(active, cand) ==
    LET Keep(o) == Eligible(o, cand)
        sorted_offers == Sorted(SelectSeq(active, Keep))
    IN IF Len(sorted_offers) > 0 THEN sorted_offers[1].offer_id ELSE 0

\* no call made yet on the instance
NoCall ==
    [op |-> "none", tick |-> 0, id |-> 0, offer |-> NoneOffer, list |-> <<>>, pos |-> 0,
     asked |-> <<>>, reads |-> <<>>]

\* ------------------------------------------------- the filter threads
\* the most filter threads the process registers
MaxThreads == 3

\* the threads contract.on(...) and contract.pastEvents(...) give; a thread
\* may be one whose stop_watching raises
ThreadChoices == [kind : {"on", "pastEvents"}, faulty : BOOLEAN]

\* register_filter_thread(filter_thread)
RegisterFilterThread(threads, filter_thread) == Append(threads, filter_thread)

\* a loop that lets the first error end it and reach the caller
StopAllFilterThreadsUntilError(threads) ==
    LET faulty == {i \in 1..Len(threads) : threads[i].faulty}
        last == IF faulty = {} THEN Len(threads)
                ELSE CHOOSE i \in faulty : \A j \in faulty : i <= j
    IN [calls |-> [i \in 1..last |-> i],
        stopped |-> {i \in 1..last : ~threads[i].faulty},
        raised |-> faulty # {}]

\* the loop of stop_all_filter_threads from the i-th thread on: the threads
\* stop_watching is called on, those that stop, and whether an error leaves
\* the function
RECURSIVE StopLoop(_, _)
StopLoop(threads, i) ==
    IF i > Len(threads) THEN [calls |-> <<>>, stopped |-> {}, raised |-> FALSE]
    ELSE LET rest == StopLoop(threads, i + 1)
         IN [calls |-> <<i>> \o rest.calls,
             stopped |-> (IF threads[i].faulty THEN {} ELSE {i}) \cup rest.stopped,
             raised |-> rest.raised]

\* stop_all_filter_threads()
StopAllFilterThreads(threads) == StopLoop(threads, 1)

\* no call has touched the registry yet
NoRegistryCall == [op |-> "none", tick |-> 0, calls |-> <<>>, raised |-> FALSE]

\* filter_threads = [] at import
RegistryIdle ==
    /\ filter_threads = <<>>
    /\ stoppedThreads = {}
    /\ registryCall = NoRegistryCall

\* ----------------------------------------------------------------- Init
\* no value class is under test
NoProbe == [class |-> "none"]
NoAnswer == [kind |-> "none"]

ValuesIdle ==
    /\ probe = NoProbe
    /\ answer = NoAnswer

\* SimpleMarket.__init__ on a contract without offers
MarketIdle ==
    /\ offers = <<>>
    /\ none_offers = {}
    /\ candidate = NoCandidate
    /\ call = NoCall
    /\ absentSeen = {}

\* the coroutines in `started` have been handed to the event loop
InitWith(started) ==
    /\ now = 0
    /\ chain = <<>>
    /\ running = 0
    /\ pc = [t \in Tasks |-> IF t \in started THEN "start" ELSE "absent"]
    /\ kwargs = [t \in Tasks |-> [gas |-> None, gas_buffer |-> None, gas_price |-> NoGasPrice]]
    /\ gas_estimate = [t \in Tasks |-> None]
    /\ nonce = [t \in Tasks |-> None]
    /\ gas = [t \in Tasks |-> None]
    /\ tx_hashes = [t \in Tasks |-> <<>>]
    /\ initial_time = [t \in Tasks |-> 0]
    /\ gas_price_last = [t \in Tasks |-> 0]
    /\ result = [t \in Tasks |-> Pending]
    /\ estimateCalls = [t \in Tasks |-> 0]
    /\ nonceCalls = [t \in Tasks |-> 0]
    /\ raisedAt = [t \in Tasks |-> ""]
    /\ attempts = [t \in Tasks |-> <<>>]
    /\ lastPollPrice = [t \in Tasks |-> 0]
    /\ polled = [t \in Tasks |-> <<>>]
    /\ priceChanges = [t \in Tasks |-> 0]
    /\ RegistryIdle

\* one submission, against either provider and either kind of node
Init ==
    /\ testerProvider \in BOOLEAN
    /\ pendingReceipts \in BOOLEAN
    /\ InitWith({1})
    /\ MarketIdle
    /\ ValuesIdle

\* all submissions at once, on one event loop
InitConc ==
    /\ testerProvider = FALSE
    /\ pendingReceipts = FALSE
    /\ InitWith(Tasks)
    /\ MarketIdle
    /\ ValuesIdle

\* -------------------------------------------------------- the environment
\* a second passes
Tick ==
    /\ now < MaxTime
    /\ now' = now + 1
    /\ UNCHANGED <<marketVars, valueVars, registryVars>>
    /\ UNCHANGED <<chain, testerProvider, pendingReceipts, running, pc, localVars, result, histVars>>

\* the node mines transaction h: nonces are mined in order, each at most once
Include(h) ==
    /\ chain[h].blockNumber = None
    /\ \A k \in Mined(chain) : chain[k].nonce # chain[h].nonce
    /\ \A n \in 0..(chain[h].nonce - 1) : \E k \in Mined(chain) : chain[k].nonce = n
    /\ \E logs \in LogChoices :
          chain' = [chain EXCEPT ![h].blockNumber = Cardinality(Mined(chain)) + 1,
                                 ![h].logs = logs]
    /\ UNCHANGED <<marketVars, valueVars, registryVars>>
    /\ UNCHANGED <<now, testerProvider, pendingReceipts, running, pc, localVars, result, histVars>>

\* --------------------------------------------------- transact_async
\* the same handler letting the exception through (`raise`)
ExceptPropagates(t, site) ==
    /\ result' = [result EXCEPT ![t] = Raised]
    /\ raisedAt' = [raisedAt EXCEPT ![t] = site]
    /\ pc' = [pc EXCEPT ![t] = "done"]
    /\ running' = 0

\* the outer `except:`: log a warning and `return None`
Except(t, site) ==
    /\ result' = [result EXCEPT ![t] = ReturnedNone]
    /\ raisedAt' = [raisedAt EXCEPT ![t] = site]
    /\ pc' = [pc EXCEPT ![t] = "done"]
    /\ running' = 0

\* `return receipt` / `return None` out of the loop
Return(t, value) ==
    /\ result' = [result EXCEPT ![t] = value]
    /\ pc' = [pc EXCEPT ![t] = "done"]
    /\ running' = 0
    /\ UNCHANGED raisedAt

\* the nonce taken before the gas is estimated
EstimateAfterNonce(t, choices) ==
    /\ pc[t] = "start"
    /\ running = 0
    /\ \E kw \in choices : kwargs' = [kwargs EXCEPT ![t] = kw]
    /\ nonceCalls' = [nonceCalls EXCEPT ![t] = @ + 1]
    /\ nonce' = [nonce EXCEPT ![t] = NextNonce(chain)]
    /\ estimateCalls' = [estimateCalls EXCEPT ![t] = @ + 1]
    /\ \/ \E e \in GasEstimates :
             /\ gas_estimate' = [gas_estimate EXCEPT ![t] = e]
             /\ gas' = [gas EXCEPT ![t] = Gas(e, kwargs'[t])]
             /\ pc' = [pc EXCEPT ![t] = "poll"]
             /\ running' = t
             /\ UNCHANGED <<result, raisedAt>>
       \/ /\ Except(t, "estimated_gas")
          /\ UNCHANGED <<gas_estimate, gas>>
    /\ UNCHANGED <<marketVars, valueVars, registryVars>>
    /\ UNCHANGED <<envVars, tx_hashes, initial_time, gas_price_last,
                   attempts, lastPollPrice, polled,
                   priceChanges>>

\* a coroutine that estimates only when it is given no `gas`
EstimateSkippedWithGas(t, choices) ==
    /\ pc[t] = "start"
    /\ running = 0
    /\ \E kw \in choices :
          /\ kwargs' = [kwargs EXCEPT ![t] = kw]
          /\ IF kw.gas # None
             THEN /\ pc' = [pc EXCEPT ![t] = "nonce"]
                  /\ running' = t
                  /\ UNCHANGED <<estimateCalls, gas_estimate, result, raisedAt>>
             ELSE /\ estimateCalls' = [estimateCalls EXCEPT ![t] = @ + 1]
                  /\ \/ \E e \in GasEstimates :
                           /\ gas_estimate' = [gas_estimate EXCEPT ![t] = e]
                           /\ pc' = [pc EXCEPT ![t] = "nonce"]
                           /\ running' = t
                           /\ UNCHANGED <<result, raisedAt>>
                     \/ /\ Except(t, "estimated_gas")
                        /\ UNCHANGED gas_estimate
    /\ UNCHANGED <<marketVars, valueVars, registryVars>>
    /\ UNCHANGED <<envVars, nonce, gas, tx_hashes, initial_time, gas_price_last,
                   nonceCalls, attempts, lastPollPrice, polled,
                   priceChanges>>

\* the coroutine starts, called with one of `choices`:
\* gas_estimate = self.estimated_gas()
EstimateFrom(t, choices) ==
    /\ pc[t] = "start"
    /\ running = 0
    /\ \E kw \in choices : kwargs' = [kwargs EXCEPT ![t] = kw]
    /\ estimateCalls' = [estimateCalls EXCEPT ![t] = @ + 1]
    /\ \/ \E e \in GasEstimates :
             /\ gas_estimate' = [gas_estimate EXCEPT ![t] = e]
             /\ pc' = [pc EXCEPT ![t] = "nonce"]
             /\ running' = t
             /\ UNCHANGED <<result, raisedAt>>
       \/ \* the call would throw: estimateGas raises
          /\ Except(t, "estimated_gas")
          /\ UNCHANGED gas_estimate
    /\ UNCHANGED <<marketVars, valueVars, registryVars>>
    /\ UNCHANGED <<envVars, nonce, gas, tx_hashes, initial_time, gas_price_last,
                   nonceCalls, attempts, lastPollPrice, polled,
                   priceChanges>>

\* transact_async(**kwargs) with any keyword arguments
Estimate(t) == EstimateFrom(t, KwargsChoices)

\* transact_async(**kwargs) of the side-by-side runs
EstimateConc(t) == EstimateFrom(t, ConcKwargsChoices)

\* a coroutine that awaits between taking its nonce and entering the loop
AllocNonceThenYield(t) ==
    /\ pc[t] = "nonce"
    /\ running = t
    /\ nonceCalls' = [nonceCalls EXCEPT ![t] = @ + 1]
    /\ \/ /\ nonce' = [nonce EXCEPT ![t] = NextNonce(chain)]
          /\ gas' = [gas EXCEPT ![t] = Gas(gas_estimate[t], kwargs[t])]
          /\ tx_hashes' = [tx_hashes EXCEPT ![t] = <<>>]
          /\ initial_time' = [initial_time EXCEPT ![t] = now]
          /\ gas_price_last' = [gas_price_last EXCEPT ![t] = 0]
          /\ pc' = [pc EXCEPT ![t] = "sleep"]
          /\ running' = 0
          /\ UNCHANGED <<result, raisedAt>>
       \/ /\ Except(t, "next_nonce")
          /\ UNCHANGED <<nonce, gas, tx_hashes, initial_time, gas_price_last>>
    /\ UNCHANGED <<marketVars, valueVars, registryVars>>
    /\ UNCHANGED <<envVars, kwargs, gas_estimate, estimateCalls, attempts, lastPollPrice, polled,
                   priceChanges>>

\* nonce, gas, gas_price and the loop's variables
AllocNonce(t) ==
    /\ pc[t] = "nonce"
    /\ running = t
    /\ nonceCalls' = [nonceCalls EXCEPT ![t] = @ + 1]
    /\ \/ /\ nonce' = [nonce EXCEPT ![t] = NextNonce(chain)]
          /\ gas' = [gas EXCEPT ![t] = Gas(gas_estimate[t], kwargs[t])]
          /\ tx_hashes' = [tx_hashes EXCEPT ![t] = <<>>]
          /\ initial_time' = [initial_time EXCEPT ![t] = now]
          /\ gas_price_last' = [gas_price_last EXCEPT ![t] = 0]
          /\ pc' = [pc EXCEPT ![t] = "poll"]
          /\ UNCHANGED <<running, result, raisedAt>>
       \/ \* next_nonce raises
          /\ Except(t, "next_nonce")
          /\ UNCHANGED <<nonce, gas, tx_hashes, initial_time, gas_price_last>>
    /\ UNCHANGED <<marketVars, valueVars, registryVars>>
    /\ UNCHANGED <<envVars, kwargs, gas_estimate, estimateCalls, attempts, lastPollPrice, polled,
                   priceChanges>>

\* top of the loop: look for a receipt of any transaction sent so far
Poll(t) ==
    /\ pc[t] = "poll"
    /\ running = t
    /\ \/ LET receipt == FirstReceipt(chain, tx_hashes[t], pendingReceipts)
          IN /\ polled' = [polled EXCEPT ![t] = QueriesMade(chain, tx_hashes[t], pendingReceipts)]
             /\ IF receipt # NoReceipt
                THEN Return(t, IF receipt.successful THEN receipt ELSE ReturnedNone)
                ELSE /\ pc' = [pc EXCEPT ![t] = "send"]
                     /\ UNCHANGED <<running, result, raisedAt>>
       \/ \* getTransactionReceipt raises at one of the hashes queried
          /\ \E n \in 1..Len(QueriesMade(chain, tx_hashes[t], pendingReceipts)) :
                polled' = [polled EXCEPT ![t] =
                             SubSeq(QueriesMade(chain, tx_hashes[t], pendingReceipts), 1, n)]
          /\ Except(t, "getTransactionReceipt")
    /\ UNCHANGED <<marketVars, valueVars, registryVars>>
    /\ UNCHANGED <<envVars, localVars, estimateCalls, nonceCalls, attempts, lastPollPrice,
                   priceChanges>>

\* rest of the loop body, sending with nonce n: price the transaction, send
\* it if need be, and go to sleep
SendWith(t, n) ==
    /\ pc[t] = "send"
    /\ running = t
    /\ LET seconds_elapsed == now - initial_time[t]
           gas_price == GasPriceOf(kwargs[t])
       IN IF gas_price.kind = "Raising"
          THEN /\ Except(t, "get_gas_price")
               /\ UNCHANGED <<chain, tx_hashes, gas_price_last, attempts, lastPollPrice,
                             priceChanges>>
          ELSE LET gas_price_value == GetGasPrice(gas_price, seconds_elapsed)
                   tx == TxDict(n, gas[t], gas_price_value, testerProvider)
               IN /\ lastPollPrice' = [lastPollPrice EXCEPT ![t] = gas_price_value]
                  /\ priceChanges' = [priceChanges EXCEPT ![t] =
                        IF attempts[t] # <<>> /\ gas_price_value # lastPollPrice[t]
                        THEN @ + 1 ELSE @]
                  /\ IF ShouldSend(tx_hashes[t], gas_price_value, gas_price_last[t])
                     THEN /\ gas_price_last' = [gas_price_last EXCEPT ![t] = gas_price_value]
                          /\ \/ \* the node takes the transaction and returns its hash
                                /\ chain' = Accept(chain, tx, t)
                                /\ tx_hashes' = [tx_hashes EXCEPT ![t] = AppendHash(@, Len(chain) + 1)]
                                /\ attempts' = [attempts EXCEPT ![t] =
                                                  Append(@, [tx |-> tx, tx_hash |-> Len(chain) + 1])]
                                /\ pc' = [pc EXCEPT ![t] = "sleep"]
                                /\ running' = 0
                                /\ UNCHANGED <<result, raisedAt>>
                             \/ \* _func raises
                                /\ attempts' = [attempts EXCEPT ![t] =
                                                  Append(@, [tx |-> tx, tx_hash |-> None])]
                                /\ UNCHANGED <<chain, tx_hashes>>
                                /\ IF Reraise(tx_hashes[t])
                                   THEN Except(t, "_func")
                                   ELSE /\ pc' = [pc EXCEPT ![t] = "sleep"]
                                        /\ running' = 0
                                        /\ UNCHANGED <<result, raisedAt>>
                     ELSE /\ pc' = [pc EXCEPT ![t] = "sleep"]
                          /\ running' = 0
                          /\ UNCHANGED <<chain, tx_hashes, gas_price_last, attempts, result, raisedAt>>
    /\ UNCHANGED <<marketVars, valueVars, registryVars>>
    /\ UNCHANGED <<now, testerProvider, pendingReceipts, kwargs, gas_estimate, nonce, gas,
                   initial_time, estimateCalls, nonceCalls, polled>>

\* a nonce fetched anew for every transaction sent
SendFreshNonce(t) == SendWith(t, NextNonce(chain))

\* self._func(nonce, gas, gas_price_value): the nonce fixed before the loop
Send(t) == SendWith(t, nonce[t])

\* asyncio.sleep(0.25) is over and the event loop resumes the coroutine
Wake(t) ==
    /\ pc[t] = "sleep"
    /\ running = 0
    /\ pc' = [pc EXCEPT ![t] = "poll"]
    /\ running' = t
    /\ UNCHANGED <<marketVars, valueVars, registryVars>>
    /\ UNCHANGED <<envVars, localVars, result, histVars>>

Next ==
    \/ Tick
    \/ \E h \in 1..Len(chain) : Include(h)
    \/ \E t \in Tasks : Estimate(t)
    \/ \E t \in Tasks : AllocNonce(t)
    \/ \E t \in Tasks : Poll(t)
    \/ \E t \in Tasks : Send(t)
    \/ \E t \in Tasks : Wake(t)

Spec == Init /\ [][Next]_vars

NextConc ==
    \/ Tick
    \/ \E h \in 1..Len(chain) : Include(h)
    \/ \E t \in Tasks : EstimateConc(t)
    \/ \E t \in Tasks : AllocNonce(t)
    \/ \E t \in Tasks : Poll(t)
    \/ \E t \in Tasks : Send(t)
    \/ \E t \in Tasks : Wake(t)

SpecConc == InitConc /\ [][NextConc]_vars

\* the event loop runs a coroutine that is ready: one whose sleep is over is
\* resumed, and a resumed coroutine runs on to its next await or its return
Fairness == \A t \in Tasks : WF_vars(Wake(t)) /\ WF_vars(Poll(t)) /\ WF_vars(Send(t))

SpecFair == Spec /\ Fairness

\* ------------------------------------------------------------- position
\* no submission runs while the market is looked at
TransactIdle ==
    /\ testerProvider = FALSE
    /\ pendingReceipts = FALSE
    /\ InitWith({})

\* the ids get_offer returned None for, among those asked
NoneReturned(scan) ==
    {scan.asked[i] : i \in 1..Len(scan.asked)} \ {scan.ret[i].offer_id : i \in 1..Len(scan.ret)}

\* a fresh MatchingMarket on a contract that holds any offers, some of them
\* taken or killed, and any arguments of position()
InitPosition ==
    /\ TransactIdle
    /\ offers \in UNION {[1..n -> OfferChoices \cup {NoOffer}] : n \in 0..MaxOffers}
    /\ candidate \in CandidateChoices
    /\ none_offers = {}
    /\ call = NoCall
    /\ absentSeen = {}
    /\ ValuesIdle

\* MatchingMarket.position(have_token, have_amount, want_token, want_amount)
PositionCall ==
    /\ call.op = "none"
    /\ LET scan == ActiveOffers(none_offers, offers)
       IN /\ none_offers' = scan.cache
          /\ absentSeen' = absentSeen \cup NoneReturned(scan)
          /\ call' = [op |-> "position", tick |-> 1 - call.tick, id |-> 0, offer |-> NoneOffer, list |-> scan.ret,
                      pos |-> PositionOf(scan.ret, candidate),
                      asked |-> scan.asked, reads |-> scan.reads]
    /\ UNCHANGED <<offers, candidate, transactVars, valueVars, registryVars>>

NextPosition == PositionCall

SpecPosition == InitPosition /\ [][NextPosition]_vars

\* ----------------------------------------- one instance, a living market
\* a fresh SimpleMarket on a contract just deployed
InitMarket ==
    /\ TransactIdle
    /\ MarketIdle
    /\ ValuesIdle

\* somebody's make() is mined: the offer takes the next id
Make(o) ==
    /\ Len(offers) < MaxOffers
    /\ offers' = Append(offers, o)
    /\ UNCHANGED <<none_offers, candidate, call, absentSeen, transactVars, valueVars, registryVars>>

\* somebody's take() is mined: the whole offer, which then disappears, or a
\* fraction of it
Take(offer_id, quantity) ==
    /\ offers[offer_id].active
    /\ LET o == offers[offer_id]
           spend == (quantity * o.buy_how_much) \div o.sell_how_much
       IN offers' = [offers EXCEPT ![offer_id] =
                       IF quantity = o.sell_how_much THEN NoOffer
                       ELSE [o EXCEPT !.sell_how_much = @ - quantity,
                                      !.buy_how_much = @ - spend]]
    /\ UNCHANGED <<none_offers, candidate, call, absentSeen, transactVars, valueVars, registryVars>>

\* the owner's kill() is mined
Kill(offer_id) ==
    /\ offers[offer_id].active
    /\ offers' = [offers EXCEPT ![offer_id] = NoOffer]
    /\ UNCHANGED <<none_offers, candidate, call, absentSeen, transactVars, valueVars, registryVars>>

\* market.get_offer(offer_id), for an id assigned or not
GetOfferCall(offer_id) ==
    /\ LET got == GetOffer(none_offers, offers, offer_id)
       IN /\ none_offers' = got.cache
          /\ absentSeen' = absentSeen \cup (IF got.ret = NoneOffer THEN {offer_id} ELSE {})
          /\ call' = [op |-> "get_offer", tick |-> 1 - call.tick, id |-> offer_id,
                      offer |-> got.ret, list |-> <<>>, pos |-> 0,
                      asked |-> <<offer_id>>, reads |-> got.reads]
    /\ UNCHANGED <<offers, candidate, transactVars, valueVars, registryVars>>

\* market.active_offers()
ActiveOffersCall ==
    /\ LET scan == ActiveOffers(none_offers, offers)
       IN /\ none_offers' = scan.cache
          /\ absentSeen' = absentSeen \cup NoneReturned(scan)
          /\ call' = [op |-> "active_offers", tick |-> 1 - call.tick, id |-> 0,
                      offer |-> NoneOffer, list |-> scan.ret, pos |-> 0,
                      asked |-> scan.asked, reads |-> scan.reads]
    /\ UNCHANGED <<offers, candidate, transactVars, valueVars, registryVars>>

NextMarket ==
    \/ \E o \in MarketOfferChoices : Make(o)
    \/ \E offer_id \in 1..Len(offers) :
          \E quantity \in 1..offers[offer_id].sell_how_much : Take(offer_id, quantity)
    \/ \E offer_id \in 1..Len(offers) : Kill(offer_id)
    \/ \E offer_id \in 0..MaxOffers : GetOfferCall(offer_id)
    \/ ActiveOffersCall

SpecMarket == InitMarket /\ [][NextMarket]_vars

\* ------------------------------------------------------- the gas pricers
\* DefaultGasPrice(), FixedGasPrice(a) or IncreasingGasPrice(a, b, c)
Construct(args) ==
    IF args.class = "Default" THEN DefaultGasPrice
    ELSE IF args.class = "Fixed" THEN FixedGasPrice(args.a)
    ELSE IncreasingGasPrice(args.a, args.b, args.c)

\* any pricer class with any arguments, good or bad, and two moments of the
\* wait, the second not before the first
InitGas ==
    /\ TransactIdle
    /\ MarketIdle
    /\ probe \in {args \in [class : {"Default", "Fixed", "Increasing"},
                             a : 0..MaxArg, b : (0 - 1)..MaxArg, c : (0 - 1)..MaxArg,
                             t1 : 0..MaxElapsed, t2 : 0..MaxElapsed] :
                     args.t1 <= args.t2}
    /\ answer = NoAnswer

\* the pricer is constructed and, if there is one, asked for the price at
\* both moments
PriceCall ==
    /\ answer = NoAnswer
    /\ LET pricer == Construct(probe)
       IN answer' = [kind |-> "priced", pricer |-> pricer,
                     price1 |-> IF pricer = InvalidConfig THEN None
                                ELSE GetGasPrice(pricer, probe.t1),
                     price2 |-> IF pricer = InvalidConfig THEN None
                                ELSE GetGasPrice(pricer, probe.t2)]
    /\ UNCHANGED <<probe, transactVars, marketVars, registryVars>>

NextGas == PriceCall

SpecGas == InitGas /\ [][NextGas]_vars

\* ------------------------------------------------- the thread registry
InitRegistry ==
    /\ TransactIdle
    /\ MarketIdle
    /\ ValuesIdle

\* Contract._on_event: the subscription's thread is registered
OnEvent(filter_thread) ==
    /\ Len(filter_threads) < MaxThreads
    /\ filter_thread.kind = "on"
    /\ filter_threads' = RegisterFilterThread(filter_threads, filter_thread)
    /\ registryCall' = [op |-> "on", tick |-> 1 - registryCall.tick, calls |-> <<>>,
                        raised |-> FALSE]
    /\ UNCHANGED <<stoppedThreads, transactVars, marketVars, valueVars>>

\* Contract._past_events: the query's thread is registered, then joined
PastEvents(filter_thread) ==
    /\ Len(filter_threads) < MaxThreads
    /\ filter_thread.kind = "pastEvents"
    /\ filter_threads' = RegisterFilterThread(filter_threads, filter_thread)
    /\ registryCall' = [op |-> "pastEvents", tick |-> 1 - registryCall.tick, calls |-> <<>>,
                        raised |-> FALSE]
    /\ UNCHANGED <<stoppedThreads, transactVars, marketVars, valueVars>>

\* stop_all_filter_threads()
StopAll ==
    /\ LET done == StopAllFilterThreads(filter_threads)
       IN /\ stoppedThreads' = stoppedThreads \cup done.stopped
          /\ registryCall' = [op |-> "stop_all", tick |-> 1 - registryCall.tick,
                              calls |-> done.calls, raised |-> done.raised]
    /\ UNCHANGED <<filter_threads, transactVars, marketVars, valueVars>>

NextRegistry ==
    \/ \E filter_thread \in ThreadChoices : OnEvent(filter_thread)
    \/ \E filter_thread \in ThreadChoices : PastEvents(filter_thread)
    \/ StopAll

SpecRegistry == InitRegistry /\ [][NextRegistry]_vars

\* ------------------------------------------------------ Receipt decoding
\* the most logs a receipt carries
MaxLogs == 3

\* the log entries a receipt may carry: Transfer events of two values, an
\* event of another signature, an anonymous log without topics, and a log
\* that has the Transfer signature as its second topic only
LogEntryChoices ==
    { [topics |-> <<TransferTopic>>, data |-> 1],
      [topics |-> <<TransferTopic>>, data |-> 2],
      [topics |-> <<OtherTopic>>, data |-> 3],
      [topics |-> <<>>, data |-> 4],
      [topics |-> <<OtherTopic, TransferTopic>>, data |-> 5] }

\* any receipt of the node: logs null, or up to MaxLogs entries
ReceiptChoices ==
    [transactionHash : {1}, blockNumber : {1}, gasUsed : {21000},
     logs : {NoLogs} \cup
            [null : {FALSE},
             entries : UNION {[1..n -> LogEntryChoices] : n \in 0..MaxLogs}]]

InitReceipt ==
    /\ TransactIdle
    /\ MarketIdle
    /\ probe \in [class : {"Receipt"}, receipt : ReceiptChoices]
    /\ answer = NoAnswer

\* Receipt(receipt)
ReceiptCall ==
    /\ answer = NoAnswer
    /\ answer' = Receipt(probe.receipt)
    /\ UNCHANGED <<probe, transactVars, marketVars, registryVars>>

NextReceipt == ReceiptCall

SpecReceipt == InitReceipt /\ [][NextReceipt]_vars

\* ------------------------------------------ OnlyOneTokenPairPairStrategy
\* StrategyResult(description, forget=...)
StrategyResult(description, forget) == [description |-> description, forget |-> forget]

\* what the next strategy of the chain may return
NextResultChoices == {StrategyResult("next strategy", forget) : forget \in BOOLEAN}

\* OnlyOneTokenPairPairStrategy(selling_token, buying_token, next_strategy)
StrategyChoices == [selling_token : Tokens, buying_token : Tokens]

\* auctionlet.get_auction()
AuctionChoices == [selling : Tokens, buying : Tokens]

\* a test that is content with one token of the pair
PairMatchesEither(self, auction) ==
    (auction.selling = self.selling_token) \/ (auction.buying = self.buying_token)

\* the condition of perform()
PairMatches(self, auction) ==
    (auction.selling = self.selling_token) /\ (auction.buying = self.buying_token)

\* OnlyOneTokenPairPairStrategy.perform: what it returns and how many times
\* it called next_strategy.perform, which returns next_result
Perform(self, auction, next_result) ==
    IF PairMatches(self, auction)
    THEN [kind |-> "performed", ret |-> next_result, next_calls |-> 1]
    ELSE [kind |-> "performed",
          ret |-> StrategyResult("Unrecognized token pair. Forgetting it.", TRUE),
          next_calls |-> 0]

InitStrategy ==
    /\ TransactIdle
    /\ MarketIdle
    /\ probe \in [class : {"Strategy"}, self : StrategyChoices, auction : AuctionChoices,
                   next_result : NextResultChoices]
    /\ answer = NoAnswer

\* strategy.perform(auctionlet, context)
PerformCall ==
    /\ answer = NoAnswer
    /\ answer' = Perform(probe.self, probe.auction, probe.next_result)
    /\ UNCHANGED <<probe, transactVars, marketVars, registryVars>>

NextStrategy == PerformCall

SpecStrategy == InitStrategy /\ [][NextStrategy]_vars

\* ------------------------------------------------- MatchingMarket.make
\* the offers the book may hold when make() is called
MakeOfferChoices == MarketOfferChoices \cup {StoredOffer(1, "0xaa", 1, "0xbb")}

\* the `pos` argument: left out, or an integer
PosChoices ==
    [given : {FALSE}, value : {0}] \cup [given : {TRUE}, value : (0 - 1)..MaxOffers]

\* assert(...) failed
AssertionError ==
    [kind |-> "AssertionError", function |-> "", have_amount |-> 0, have_token |-> "",
     want_amount |-> 0, want_token |-> "", pos |-> 0]

\* Transact(self, ..., 'offer', [have_amount.value, have_token.address,
\* want_amount.value, want_token.address, pos])
OfferTransact(cand, pos) ==
    [kind |-> "Transact", function |-> "offer", have_amount |-> cand.have_amount,
     have_token |-> cand.have_token, want_amount |-> cand.want_amount,
     want_token |-> cand.want_token, pos |-> pos]

\* a make() that computes the position whether or not `pos` was given
MatchingMarketMakeAlwaysPosition(cache, c, cand, pos) ==
    IF ~(cand.have_amount > 0) \/ ~(cand.want_amount > 0)
    THEN [ret |-> AssertionError, list |-> <<>>, asked |-> <<>>, reads |-> <<>>,
          cache |-> cache]
    ELSE LET scan == ActiveOffers(cache, c)
         IN [ret |-> OfferTransact(cand, PositionOf(scan.ret, cand)), list |-> scan.ret,
             asked |-> scan.asked, reads |-> scan.reads, cache |-> scan.cache]

\* MatchingMarket.make: the descriptor it returns and the reads it makes
MatchingMarketMake(cache, c, cand, pos) ==
    IF ~(cand.have_amount > 0) \/ ~(cand.want_amount > 0)
    THEN [ret |-> AssertionError, list |-> <<>>, asked |-> <<>>, reads |-> <<>>,
          cache |-> cache]
    ELSE IF ~pos.given
    THEN LET scan == ActiveOffers(cache, c)
         IN [ret |-> OfferTransact(cand, PositionOf(scan.ret, cand)), list |-> scan.ret,
             asked |-> scan.asked, reads |-> scan.reads, cache |-> scan.cache]
    ELSE IF ~(pos.value >= 0)
    THEN [ret |-> AssertionError, list |-> <<>>, asked |-> <<>>, reads |-> <<>>,
          cache |-> cache]
    ELSE [ret |-> OfferTransact(cand, pos.value), list |-> <<>>, asked |-> <<>>,
          reads |-> <<>>, cache |-> cache]

\* a fresh MatchingMarket on a contract that holds any offers, some of them
\* taken or killed, and any arguments of make(), good or bad
InitMake ==
    /\ TransactIdle
    /\ offers \in UNION {[1..n -> MakeOfferChoices \cup {NoOffer}] : n \in 0..MaxOffers}
    /\ candidate \in [have_token : {"0xaa"}, have_amount : 0..MaxAmount,
                       want_token : {"0xbb"}, want_amount : 0..MaxAmount]
    /\ none_offers = {}
    /\ call = NoCall
    /\ absentSeen = {}
    /\ probe \in [class : {"make"}, pos : PosChoices]
    /\ answer = NoAnswer

\* MatchingMarket.make(have_token, have_amount, want_token, want_amount, pos)
MakeCall ==
    /\ call.op = "none"
    /\ LET made == MatchingMarketMake(none_offers, offers, candidate, probe.pos)
       IN /\ none_offers' = made.cache
          /\ answer' = made.ret
          /\ call' = [op |-> "make", tick |-> 1 - call.tick, id |-> 0, offer |-> NoneOffer,
                      list |-> made.list, pos |-> made.ret.pos,
                      asked |-> made.asked, reads |-> made.reads]
    /\ UNCHANGED <<offers, candidate, absentSeen, probe, transactVars, registryVars>>

NextMake == MakeCall

SpecMake == InitMake /\ [][NextMake]_vars

\* ------------------------------------------------------ Address, Calldata
\* the characters strings are made of: digits, letters of either case, and
\* one that is no hexadecimal digit
Chars == {"1", "a", "A", "g"}

\* str.lower(), character by character
LowerChar(ch) == IF ch = "A" THEN "a" ELSE ch
Lower(chars) == [i \in 1..Len(chars) |-> LowerChar(chars[i])]

\* the value of a hexadecimal digit
Nibble(ch) == IF ch = "1" THEN 1 ELSE 10

IsHexChar(ch) == ch \in {"1", "a", "A"}

IsHex(chars) == \A i \in 1..Len(chars) : IsHexChar(chars[i])

Prefix0x == <<"0", "x">>

\* a string as written: the digits, after 0x or not
Text(prefixed, digits) == IF prefixed THEN Prefix0x \o digits ELSE digits

StartsWith0x(chars) == Len(chars) >= 2 /\ SubSeq(chars, 1, 2) = Prefix0x

\* construction raised
Rejected == [ok |-> FALSE, value |-> <<>>, hash |-> 0]

\* a normalisation that keeps the case of the letters
ToNormalizedAddressKeepCase(chars) ==
    LET digits == IF StartsWith0x(chars) THEN SubSeq(chars, 3, Len(chars)) ELSE chars
    IN IF Len(digits) = AddressDigits /\ IsHex(digits)
       THEN [ok |-> TRUE, value |-> Prefix0x \o digits]
       ELSE [ok |-> FALSE, value |-> <<>>]

\* eth_utils.to_normalized_address of a string: lower case, 0x in front;
\* raises unless the string is an address
ToNormalizedAddress(chars) ==
    LET lowered == Lower(chars)
        digits == IF StartsWith0x(lowered) THEN SubSeq(lowered, 3, Len(lowered)) ELSE lowered
    IN IF Len(digits) = AddressDigits /\ IsHex(digits)
       THEN [ok |-> TRUE, value |-> Prefix0x \o digits]
       ELSE [ok |-> FALSE, value |-> <<>>]

\* the code point of a character
CharCode(ch) ==
    IF ch = "0" THEN 48 ELSE IF ch = "1" THEN 49 ELSE IF ch = "A" THEN 65
    ELSE IF ch = "a" THEN 97 ELSE IF ch = "g" THEN 103 ELSE 120

\* str.__hash__: a number computed from the characters alone
RECURSIVE StrHash(_)
StrHash(chars) ==
    IF chars = <<>> THEN 0
    ELSE (StrHash(SubSeq(chars, 1, Len(chars) - 1)) * 31 + CharCode(chars[Len(chars)])) % 65521

\* Address.__init__, and __hash__ of the instance
Address(rep) ==
    IF rep.type = "Address"
    THEN [ok |-> TRUE, value |-> rep.inner, hash |-> StrHash(rep.inner)]
    ELSE LET normalized == ToNormalizedAddress(Text(rep.prefixed, rep.digits))
         IN IF normalized.ok
            THEN [ok |-> TRUE, value |-> normalized.value, hash |-> StrHash(normalized.value)]
            ELSE Rejected

\* strings of digits of the right length, of one less and of one more
DigitStrings == UNION {[1..n -> Chars] : n \in (AddressDigits - 1)..(AddressDigits + 1)}

\* what an Address is constructed from: a string, or an Address made before
Representations ==
    {[type |-> "str", prefixed |-> prefixed, digits |-> digits, inner |-> <<>>] :
        prefixed \in BOOLEAN, digits \in DigitStrings}
    \cup {[type |-> "Address", prefixed |-> FALSE, digits |-> <<>>,
           inner |-> ToNormalizedAddress(digits).value] :
              digits \in {d \in DigitStrings : ToNormalizedAddress(d).ok}}

\* a Calldata that takes any string
CalldataAnyString(arg) ==
    IF arg.type = "str"
    THEN [ok |-> TRUE, value |-> arg.chars, hash |-> StrHash(arg.chars)]
    ELSE Rejected

\* Calldata.__init__
Calldata(arg) ==
    IF arg.type = "str" /\ StartsWith0x(arg.chars)
    THEN [ok |-> TRUE, value |-> arg.chars, hash |-> StrHash(arg.chars)]
    ELSE Rejected

\* what a Calldata is constructed from: a str or a bytes of any content
CalldataArguments ==
    [type : {"str", "bytes"},
     chars : UNION {[1..n -> {"0", "x", "a"}] : n \in 0..MaxChars}]

\* two Address constructions side by side, or one Calldata construction
InitValues ==
    /\ TransactIdle
    /\ MarketIdle
    /\ probe \in [class : {"Address"}, x : Representations, y : Representations]
                  \cup [class : {"Calldata"}, arg : CalldataArguments]
    /\ answer = NoAnswer

\* Address(x) and Address(y)
AddressCall ==
    /\ probe.class = "Address"
    /\ answer = NoAnswer
    /\ answer' = [kind |-> "addresses", x |-> Address(probe.x), y |-> Address(probe.y)]
    /\ UNCHANGED <<probe, transactVars, marketVars, registryVars>>

\* Calldata(arg)
CalldataCall ==
    /\ probe.class = "Calldata"
    /\ answer = NoAnswer
    /\ answer' = [kind |-> "calldata", made |-> Calldata(probe.arg)]
    /\ UNCHANGED <<probe, transactVars, marketVars, registryVars>>

NextValues == AddressCall \/ CalldataCall

SpecValues == InitValues /\ [][NextValues]_vars


\* ====================================================================
\* Properties
\* ====================================================================
Last(seq) == seq[Len(seq)]

\* the transactions of coroutine t that the node took in
Accepted(t) == {i \in 1..Len(attempts[t]) : attempts[t][i].tx_hash # None}

\* the transactions of coroutine t that the node has mined
MinedOf(t) == {h \in Mined(chain) : \E i \in 1..Len(tx_hashes[t]) : tx_hashes[t][i] = h}

\* coroutine t completes a pass of the loop body below the receipt check
SendStep(t) == pc[t] = "send" /\ pc'[t] # "send"

\* that pass called _func
Attempted(t) == Len(attempts'[t]) = Len(attempts[t]) + 1

\* C1: when gas estimation fails, the submission makes no next_nonce call
\* and no broadcast.
C1_NoNonceOnEstimationFailure ==
    \A t \in Tasks :
        raisedAt[t] = "estimated_gas" =>
            /\ nonceCalls[t] = 0
            /\ nonce[t] = None
            /\ attempts[t] = <<>>
            /\ \A h \in 1..Len(chain) : chain[h].task # t

C1_Witness ==
    \E t \in Tasks : raisedAt[t] = "estimated_gas" /\ estimateCalls[t] = 1 /\ pc[t] = "done"

\* C2, as stated: every transaction a submission sends carries the nonce and
\* the gas limit fixed before the loop.
C2_Original ==
    \A t \in Tasks : \A i \in 1..Len(attempts[t]) :
        /\ attempts[t][i].tx.nonce = nonce[t]
        /\ attempts[t][i].tx.gas = gas[t]

\* C2, amended: every transaction a submission sends is built from the nonce
\* and the gas limit fixed before the loop; it carries that gas limit, and it
\* carries that nonce unless the provider is the EthereumTesterProvider, for
\* which the nonce is left out. Only the gas price differs between them.
C2_SameNonceAndGas ==
    \A t \in Tasks : \A i \in 1..Len(attempts[t]) :
        /\ attempts[t][i].tx.gas = gas[t]
        /\ attempts[t][i].tx.nonce = IF testerProvider THEN None ELSE nonce[t]
        /\ attempts[t][i].tx_hash # None =>
              /\ chain[attempts[t][i].tx_hash].gas = gas[t]
              /\ ~testerProvider => chain[attempts[t][i].tx_hash].nonce = nonce[t]

C2_Witness ==
    \E t \in Tasks :
        /\ ~testerProvider
        /\ Cardinality(Accepted(t)) >= 2
        /\ attempts[t][1].tx.gasPrice # attempts[t][2].tx.gasPrice

\* C3, as stated: the node mines at most one of the transactions of one
\* submission.
C3_Original == \A t \in Tasks : Cardinality(MinedOf(t)) <= 1

\* C3, amended: unless the provider is the EthereumTesterProvider, the node
\* (which mines at most one transaction per nonce) mines at most one of the
\* transactions of one submission.
C3_AtMostOneMined == ~testerProvider => \A t \in Tasks : Cardinality(MinedOf(t)) <= 1

C3_Witness ==
    \E t \in Tasks :
        /\ ~testerProvider
        /\ Len(tx_hashes[t]) >= 2
        /\ Cardinality(MinedOf(t)) = 1

\* C4: once something has been sent, a pass of the loop calls _func exactly
\* when the price it computes differs from the price computed at the pass
\* before.
C4_ResendIffPriceChanged ==
    [][\A t \in Tasks :
          (SendStep(t) /\ Len(tx_hashes[t]) > 0 /\ raisedAt'[t] = "") =>
              (Attempted(t) <=> lastPollPrice'[t] # lastPollPrice[t])]_vars

C4_Witness ==
    \E t \in Tasks :
        /\ Len(attempts[t]) >= 2
        /\ pc[t] = "sleep"
        /\ lastPollPrice[t] = Last(attempts[t]).tx.gasPrice
        /\ attempts[t][1].tx.gasPrice # attempts[t][2].tx.gasPrice

\* C5, as stated: a pass of the loop that finds no receipt calls _func
\* exactly when nothing has been sent yet or the price it computes differs
\* from the price of the latest transaction the node took in.
C5_Original ==
    [][\A t \in Tasks :
          (SendStep(t) /\ GasPriceOf(kwargs[t]).kind # "Raising") =>
              (Attempted(t) <=>
                  \/ Len(tx_hashes[t]) = 0
                  \/ lastPollPrice'[t] # chain[Last(tx_hashes[t])].gasPrice)]_vars

\* C6, as stated: a failed gas estimation leaves the coroutine with an
\* exception raised to its caller.
C6_Original == \A t \in Tasks : raisedAt[t] = "estimated_gas" => result[t] = Raised

\* C6, amended: a failed gas estimation is caught inside transact_async,
\* which returns None, the value it also returns for a mined transaction
\* without logs; the caller sees no exception.
C6_EstimationFailureReturnsNone ==
    \A t \in Tasks :
        raisedAt[t] = "estimated_gas" => (pc[t] = "done" /\ result[t] = ReturnedNone)

C6_Witness == \E t \in Tasks : raisedAt[t] = "estimated_gas" /\ result[t] = ReturnedNone

\* the first _func call of coroutine t was rejected
FirstBroadcastRejected(t) == Len(attempts[t]) >= 1 /\ attempts[t][1].tx_hash = None

\* C7, as stated: when the first _func call is rejected the coroutine stops,
\* polls and sends nothing more, and raises to its caller.
C7_Original ==
    \A t \in Tasks :
        FirstBroadcastRejected(t) =>
            /\ pc[t] = "done"
            /\ Len(attempts[t]) = 1
            /\ polled[t] = <<>>
            /\ result[t] = Raised

\* C7, amended: when the first _func call is rejected the coroutine stops,
\* polls and sends nothing more, and returns None: the exception is caught
\* inside transact_async and the caller cannot tell it from 'no receipt'.
C7_FirstRejectionReturnsNone ==
    \A t \in Tasks :
        FirstBroadcastRejected(t) =>
            /\ pc[t] = "done"
            /\ Len(attempts[t]) = 1
            /\ tx_hashes[t] = <<>>
            /\ polled[t] = <<>>
            /\ raisedAt[t] = "_func"
            /\ result[t] = ReturnedNone

C7_Witness == \E t \in Tasks : FirstBroadcastRejected(t) /\ result[t] = ReturnedNone

\* C8: a _func call rejected after an earlier one was taken in does not end
\* the coroutine: it goes to sleep with its list of hashes intact, to poll
\* them again.
C8_LateRejectionSwallowed ==
    [][\A t \in Tasks :
          (Attempted(t) /\ Last(attempts'[t]).tx_hash = None /\ Len(tx_hashes[t]) > 0) =>
              /\ pc'[t] = "sleep"
              /\ result'[t] = Pending
              /\ raisedAt'[t] = ""
              /\ tx_hashes'[t] = tx_hashes[t]]_vars

\* a Receipt of an earlier transaction returned after a later one was rejected
C8_Witness ==
    \E t \in Tasks :
        /\ Len(attempts[t]) >= 2
        /\ Last(attempts[t]).tx_hash = None
        /\ result[t].kind = "Receipt"
        /\ result[t].transaction_hash = attempts[t][1].tx_hash

\* the first hash of the list that the node has mined
FirstMined(hashes) ==
    hashes[CHOOSE i \in 1..Len(hashes) :
              /\ hashes[i] \in Mined(chain)
              /\ \A j \in 1..(i - 1) : hashes[j] \notin Mined(chain)]

\* C9: a pass of the loop that finds one of its transactions mined ends the
\* coroutine: with the Receipt of that transaction if it has at least one
\* log, with None if it has none.
C9_MinedAttemptTerminates ==
    [][\A t \in Tasks :
          (pc[t] = "poll" /\ pc'[t] # "poll" /\ MinedOf(t) # {}) =>
              /\ pc'[t] = "done"
              /\ raisedAt'[t] = "" =>
                    LET h == FirstMined(tx_hashes[t])
                        logs == chain[h].logs
                    IN IF logs.null \/ Len(logs.entries) = 0
                       THEN result'[t] = ReturnedNone
                       ELSE /\ result'[t].kind = "Receipt"
                            /\ result'[t].transaction_hash = h
                            /\ result'[t].successful]_vars

\* a mined transaction without logs has ended its coroutine with None
C9_Witness ==
    \E t \in Tasks :
        /\ pc[t] = "done"
        /\ raisedAt[t] = ""
        /\ result[t] = ReturnedNone
        /\ \E h \in MinedOf(t) : ~chain[h].logs.null /\ chain[h].logs.entries = <<>>

\* C10: whatever call raises inside transact_async, the coroutine ends with
\* None and never with an exception raised to its caller.
C10_FaultsBecomeNone ==
    \A t \in Tasks :
        /\ result[t] # Raised
        /\ raisedAt[t] # "" => (pc[t] = "done" /\ result[t] = ReturnedNone)

C10_Witness ==
    \E t \in Tasks :
        /\ raisedAt[t] = "getTransactionReceipt"
        /\ result[t] = ReturnedNone
        /\ Len(tx_hashes[t]) >= 1

\* the node has mined transaction h with at least one log
SuccessfullyIncluded(h) ==
    /\ h \in Mined(chain)
    /\ ~chain[h].logs.null
    /\ Len(chain[h].logs.entries) > 0

\* C11, as stated: the coroutine ends only once one of its transactions is
\* mined, with a Receipt if that one succeeded and with None only if it
\* failed, so that after None none of its transactions is ever mined with
\* success.
C11_Original ==
    \A t \in Tasks :
        pc[t] = "done" =>
            /\ MinedOf(t) # {}
            /\ result[t] = ReturnedNone =>
                  \A h \in 1..Len(chain) : chain[h].task = t => ~SuccessfullyIncluded(h)

\* C12: transactions the node took in from different submissions never
\* carry the same nonce, and a submission that has its nonce holds the event
\* loop until its first _func call is over.
C12_NoSharedNonce ==
    /\ \A h1, h2 \in 1..Len(chain) :
          chain[h1].task # chain[h2].task => chain[h1].nonce # chain[h2].nonce
    /\ \A t \in Tasks :
          (nonce[t] # None /\ attempts[t] = <<>> /\ pc[t] # "done") => running = t

\* a submission took its nonce while the transaction of another one was
\* still pending
C12_Witness ==
    \E t, u \in Tasks :
        /\ t # u
        /\ Accepted(t) # {} /\ Accepted(u) # {}
        /\ nonce[t] = 0 /\ nonce[u] = 1
        /\ MinedOf(t) = {}

\* C13: the loop is left only by a raise or with a mined transaction, however
\* long that takes; and once one of the submission's transactions is mined,
\* the coroutine, run by the event loop, comes to its end.
C13_NoTimeoutButTerminates ==
    /\ [][\A t \in Tasks :
            (pc[t] \in {"poll", "send", "sleep"} /\ pc'[t] = "done") =>
                (raisedAt'[t] # "" \/ MinedOf(t) # {})]_vars
    /\ \A t \in Tasks : (MinedOf(t) # {}) ~> (pc[t] = "done")

\* a transaction mined at the last second, after passes that found nothing,
\* ended the coroutine with its Receipt
C13_Witness ==
    \E t \in Tasks :
        /\ pc[t] = "done"
        /\ raisedAt[t] = ""
        /\ result[t].kind = "Receipt"
        /\ now = MaxTime
        /\ Len(attempts[t]) >= 2

\* C14, as stated: a submission given `gas` never calls estimated_gas and is
\* never ended by it.
C14_Original ==
    \A t \in Tasks :
        kwargs[t].gas # None => (estimateCalls[t] = 0 /\ raisedAt[t] # "estimated_gas")

\* C14, amended: every submission calls estimated_gas exactly once, given
\* `gas` or not, and ends with None and nothing sent when that call raises;
\* `gas` only replaces the limit computed from the estimate.
C14_AlwaysEstimates ==
    \A t \in Tasks :
        pc[t] \notin {"absent", "start"} =>
            /\ estimateCalls[t] = 1
            /\ (raisedAt[t] = "estimated_gas") <=> (gas_estimate[t] = None)
            /\ raisedAt[t] = "estimated_gas" =>
                  (result[t] = ReturnedNone /\ attempts[t] = <<>>)
            /\ (gas[t] # None /\ kwargs[t].gas # None) => gas[t] = kwargs[t].gas

C14_Witness ==
    \E t \in Tasks :
        /\ kwargs[t].gas # None
        /\ raisedAt[t] = "estimated_gas"
        /\ result[t] = ReturnedNone

\* C15: the gas limit of every transaction sent is `gas` if given, with or
\* without `gas_buffer`; else the estimate plus `gas_buffer` if given; else
\* the estimate plus 100000.
C15_GasLimit ==
    \A t \in Tasks : \A i \in 1..Len(attempts[t]) :
        LET limit == attempts[t][i].tx.gas
            kw == kwargs[t]
        IN /\ kw.gas # None => limit = kw.gas
           /\ (kw.gas = None /\ kw.gas_buffer # None) => limit = gas_estimate[t] + kw.gas_buffer
           /\ (kw.gas = None /\ kw.gas_buffer = None) => limit = gas_estimate[t] + 100000

C15_Witness ==
    \E t \in Tasks :
        /\ kwargs[t].gas # None /\ kwargs[t].gas_buffer # None
        /\ Accepted(t) # {}
        /\ chain[attempts[t][1].tx_hash].gas = kwargs[t].gas

\* the ids of the active offers of the contract
ActiveIds == {i \in 1..Len(offers) : offers[i].active}

\* the active offers on the candidate's pair whose price, as a Wad, is not
\* below the candidate's
EligibleIds ==
    {i \in ActiveIds :
        /\ offers[i].sell_which_token = candidate.have_token
        /\ offers[i].buy_which_token = candidate.want_token
        /\ Price(offers[i]) >= WadDiv(candidate.have_amount, candidate.want_amount)}

ExactEligibleIds ==
    {i \in ActiveIds :
        /\ offers[i].sell_which_token = candidate.have_token
        /\ offers[i].buy_which_token = candidate.want_token
        /\ offers[i].sell_how_much * candidate.want_amount
              >= candidate.have_amount * offers[i].buy_how_much}

\* C17, as stated: eligibility and the minimum are decided on the prices as
\* rationals, by cross-multiplication.
C17_Original ==
    call.op = "position" =>
        /\ call.pos = 0 <=> ExactEligibleIds = {}
        /\ call.pos # 0 =>
              /\ call.pos \in ExactEligibleIds
              /\ \A j \in ExactEligibleIds :
                    offers[call.pos].sell_how_much * offers[j].buy_how_much
                        <= offers[j].sell_how_much * offers[call.pos].buy_how_much

CallStep == call'.tick # call.tick

\* C19: a get_offer for an id that get_offer returned None for before
\* returns None again and reads nothing from the contract, whatever the
\* contract now holds at that id; nor does active_offers read or return it.
C19_StickyAbsence ==
    [][CallStep =>
          /\ (call'.op = "get_offer" /\ call'.id \in absentSeen) =>
                (call'.offer = NoneOffer /\ call'.reads = <<>>)
          /\ call'.op = "active_offers" =>
                /\ \A i \in 1..Len(call'.reads) : call'.reads[i] \notin absentSeen
                /\ \A i \in 1..Len(call'.list) : call'.list[i].offer_id \notin absentSeen]_vars

\* get_offer returned None, without a read, for an id that held an active
\* offer by then
C19_Witness ==
    /\ call.op = "get_offer"
    /\ call.offer = NoneOffer
    /\ call.reads = <<>>
    /\ call.id \in ActiveIds

\* the ids from 1 to the last one assigned, in ascending order
AssignedIds == [i \in 1..Len(offers) |-> i]

\* C20: active_offers calls get_offer for the ids 1, 2, ... up to the last
\* one assigned, in that order; it reads from the contract those that are
\* not in _none_offers, and no other id; it returns the offers that
\* get_offer returned, in ascending order of id.
C20_ActiveOffersScan ==
    [][(CallStep /\ call'.op = "active_offers") =>
          LET Uncached(i) == i \notin none_offers
              Found(i) == i \notin none_offers /\ offers[i].active
              found == SelectSeq(AssignedIds, Found)
          IN /\ call'.asked = AssignedIds
             /\ call'.reads = SelectSeq(AssignedIds, Uncached)
             /\ call'.list = [k \in 1..Len(found) |-> OfferInfo(found[k], offers[found[k]])]
             /\ \A i \in 1..Len(call'.reads) : call'.reads[i] \in 1..Len(offers)]_vars

\* a scan of three ids that skipped one in _none_offers, read the other two
\* and returned one offer
C20_Witness ==
    /\ call.op = "active_offers"
    /\ Len(call.asked) = 3
    /\ Len(call.reads) = 2
    /\ Len(call.list) = 1
    /\ Len(offers) = 3

\* C21: an IncreasingGasPrice built from a positive increase and a positive
\* period prices every moment at initial + increase * floor(elapsed /
\* period), and never prices a later moment below an earlier one.
C21_IncreasingFormula ==
    (answer.kind = "priced" /\ probe.class = "Increasing" /\ probe.b > 0 /\ probe.c > 0) =>
        /\ answer.pricer # InvalidConfig
        /\ answer.price1 = probe.a + probe.b * (probe.t1 \div probe.c)
        /\ answer.price2 = probe.a + probe.b * (probe.t2 \div probe.c)
        /\ answer.price1 <= answer.price2

\* a pricer with a period of two seconds asked within a period, then past
\* the end of it
C21_Witness ==
    /\ answer.kind = "priced"
    /\ probe.class = "Increasing"
    /\ probe.c = 2 /\ probe.t1 = 1 /\ probe.t2 = 3
    /\ answer.price1 = probe.a
    /\ answer.price2 = probe.a + probe.b

\* C22: a FixedGasPrice is constructed exactly from a positive value, and
\* then prices every moment at that value.
C22_FixedConstant ==
    (answer.kind = "priced" /\ probe.class = "Fixed") =>
        IF probe.a > 0
        THEN /\ answer.pricer # InvalidConfig
             /\ answer.price1 = probe.a
             /\ answer.price2 = probe.a
        ELSE answer.pricer = InvalidConfig

C22_Witness ==
    /\ answer.kind = "priced"
    /\ probe.class = "Fixed"
    /\ probe.a = 0
    /\ answer.pricer = InvalidConfig

\* C23: constructing an IncreasingGasPrice fails exactly when the increase
\* or the period is not positive; no price is ever asked of such a pricer,
\* and none is among the pricers given to transact_async.
C23_IncreasingRejectsNonPositive ==
    /\ (answer.kind = "priced" /\ probe.class = "Increasing") =>
          /\ (answer.pricer = InvalidConfig) <=> (probe.b <= 0 \/ probe.c <= 0)
          /\ answer.pricer = InvalidConfig => (answer.price1 = None /\ answer.price2 = None)
    /\ \A t \in Tasks : kwargs[t].gas_price # InvalidConfig
    /\ InvalidConfig \notin GasPrices

C23_Witness ==
    /\ answer.kind = "priced"
    /\ probe.class = "Increasing"
    /\ probe.b = 1 /\ probe.c = 0
    /\ answer.pricer = InvalidConfig

\* C24: DefaultGasPrice gives None at every moment; a submission given no
\* 'gas_price' prices every pass at None, exactly as one given a
\* DefaultGasPrice, and every transaction it sends is without a gasPrice.
C24_DefaultPriceIsNone ==
    /\ \A elapsed \in 0..MaxTime : GetGasPrice(DefaultGasPrice, elapsed) = None
    /\ \A t \in Tasks :
          (pc[t] \notin {"absent", "start"}
             /\ kwargs[t].gas_price \in {NoGasPrice, DefaultGasPrice}) =>
              /\ attempts[t] # <<>> => lastPollPrice[t] = None
              /\ Len(attempts[t]) <= 1
              /\ \A i \in 1..Len(attempts[t]) :
                    /\ attempts[t][i].tx.gasPrice = None
                    /\ attempts[t][i].tx_hash # None =>
                          chain[attempts[t][i].tx_hash].gasPrice = None

\* a transaction sent without 'gas_price', still the only one a second later
C24_Witness ==
    \E t \in Tasks :
        /\ kwargs[t].gas_price = NoGasPrice
        /\ Accepted(t) = {1}
        /\ chain[attempts[t][1].tx_hash].gasPrice = None
        /\ now > initial_time[t]
        /\ pc[t] = "sleep"
        /\ polled[t] # <<>>

\* hashes is the list's own beginning, of some length
IsPrefix(hashes, list) == Len(hashes) <= Len(list) /\ hashes = SubSeq(list, 1, Len(hashes))

\* C27: a pass of the loop queries the hashes in the order they were sent
\* and stops at the first one mined, which alone decides what the coroutine
\* returns; it sends only after querying all of them in vain; and a
\* coroutine that has returned queries and sends nothing more.
C27_FirstReceiptWins ==
    [][\A t \in Tasks :
          /\ (pc[t] = "poll" /\ pc'[t] # "poll") =>
                /\ IsPrefix(polled'[t], tx_hashes[t])
                /\ attempts'[t] = attempts[t] /\ chain' = chain
                /\ raisedAt'[t] = "" =>
                      IF MinedOf(t) = {}
                      THEN polled'[t] = tx_hashes[t] /\ pc'[t] = "send"
                      ELSE LET h == FirstMined(tx_hashes[t])
                           IN /\ Last(polled'[t]) = h
                              /\ \A i \in 1..(Len(polled'[t]) - 1) :
                                    polled'[t][i] \notin Mined(chain)
                              /\ pc'[t] = "done"
                              /\ (result'[t] = ReturnedNone) <=>
                                    (chain[h].logs.null \/ chain[h].logs.entries = <<>>)
                              /\ result'[t] # ReturnedNone =>
                                    (result'[t].kind = "Receipt"
                                       /\ result'[t].transaction_hash = h)
          /\ Attempted(t) => (pc[t] = "send" /\ polled[t] = tx_hashes[t])
          /\ pc[t] = "done" =>
                (attempts'[t] = attempts[t] /\ polled'[t] = polled[t]
                   /\ result'[t] = result[t])]_vars

\* two transactions of the submission are mined; the Receipt is that of
\* the one sent first, and the other was not queried
C27_Witness ==
    \E t \in Tasks :
        /\ Cardinality(MinedOf(t)) = 2
        /\ result[t].kind = "Receipt"
        /\ result[t].transaction_hash = tx_hashes[t][1]
        /\ polled[t] = <<tx_hashes[t][1]>>
        /\ Len(tx_hashes[t]) >= 2

\* C28: a submission calls estimated_gas once and next_nonce at most once;
\* next_nonce is called only after the estimate is there, and _func only
\* after next_nonce; sending again changes neither the estimate, nor the
\* nonce, nor the gas limit, nor the number of those calls.
C28_EstimateThenNonceOnce ==
    /\ \A t \in Tasks :
          /\ estimateCalls[t] <= 1 /\ nonceCalls[t] <= 1
          /\ nonceCalls[t] = 1 => (estimateCalls[t] = 1 /\ gas_estimate[t] # None)
          /\ attempts[t] # <<>> => (nonceCalls[t] = 1 /\ nonce[t] # None)
          /\ \A i \in 1..Len(attempts[t]) : attempts[t][i].tx.nonce \in {nonce[t], None}
    /\ \A h \in 1..Len(chain) :
          ~testerProvider => chain[h].nonce = nonce[chain[h].task]

\* a third transaction sent after one estimate and one nonce
C28_Witness ==
    \E t \in Tasks :
        /\ Len(attempts[t]) = 3
        /\ estimateCalls[t] = 1
        /\ nonceCalls[t] = 1

\* C29: an answer of the node that is null, or that has no block number,
\* is no receipt: a pass that gets only such answers neither ends the
\* coroutine nor gives it a result, and a Receipt is only ever that of a
\* mined transaction.
C29_NoReceiptBeforeInclusion ==
    [][\A t \in Tasks :
          /\ (pc[t] = "poll" /\ MinedOf(t) = {} /\ raisedAt'[t] = "") =>
                (pc'[t] \in {"poll", "send"} /\ result'[t] = Pending)
          /\ result'[t].kind = "Receipt" =>
                (result'[t].transaction_hash \in Mined(chain')
                   /\ result'[t].gas_used # None)]_vars

\* the node answered with a receipt without block number, and the loop
\* went on to sleep
C29_Witness ==
    \E t \in Tasks :
        /\ pendingReceipts
        /\ polled[t] # <<>>
        /\ MinedOf(t) = {}
        /\ pc[t] = "sleep"
        /\ result[t] = Pending

\* C30: with an IncreasingGasPrice, each _func call of a submission asks a
\* higher price than the one before, so the transactions the node took in
\* have strictly increasing prices in the order they were sent.
C30_StrictlyIncreasingPrices ==
    \A t \in Tasks :
        GasPriceOf(kwargs[t]).kind = "Increasing" =>
            /\ \A i, j \in 1..Len(attempts[t]) :
                  i < j => attempts[t][i].tx.gasPrice < attempts[t][j].tx.gasPrice
            /\ \A i, j \in 1..Len(tx_hashes[t]) :
                  i < j => chain[tx_hashes[t][i]].gasPrice < chain[tx_hashes[t][j]].gasPrice

\* three transactions taken in, at the prices of three successive seconds
C30_Witness ==
    \E t \in Tasks :
        /\ Len(tx_hashes[t]) = 3
        /\ chain[tx_hashes[t][1]].gasPrice + 2 = chain[tx_hashes[t][3]].gasPrice

\* the bytes a string of hexadecimal digits stands for
BytesOf(digits) == [i \in 1..Len(digits) |-> Nibble(digits[i])]

\* the representation is one of an address: an Address, or a string of
\* exactly AddressDigits hexadecimal digits, after 0x or not
ValidRepresentation(rep) ==
    rep.type = "Address" \/ (Len(rep.digits) = AddressDigits /\ IsHex(rep.digits))

\* the bytes a valid representation stands for
ValueOf(rep) ==
    IF rep.type = "Address" THEN BytesOf(SubSeq(rep.inner, 3, Len(rep.inner)))
    ELSE BytesOf(rep.digits)

\* C25: an Address is made from every valid representation and from no
\* string of another length; two Addresses made from representations of the
\* same bytes are equal, hash alike and hold the same string, which is in
\* lower case with 0x in front; an Address made from an Address holds its
\* string.
C25_AddressCanonical ==
    answer.kind = "addresses" =>
        /\ answer.x.ok <=> ValidRepresentation(probe.x)
        /\ (probe.x.type = "str" /\ Len(probe.x.digits) # AddressDigits) => ~answer.x.ok
        /\ answer.x.ok =>
              /\ StartsWith0x(answer.x.value)
              /\ Lower(answer.x.value) = answer.x.value
              /\ BytesOf(SubSeq(answer.x.value, 3, Len(answer.x.value))) = ValueOf(probe.x)
        /\ probe.x.type = "Address" => answer.x.value = probe.x.inner
        /\ (answer.x.ok /\ answer.y.ok /\ ValueOf(probe.x) = ValueOf(probe.y)) =>
              /\ answer.x.value = answer.y.value
              /\ answer.x.hash = answer.y.hash
        /\ (answer.x.ok /\ answer.y.ok /\ ValueOf(probe.x) # ValueOf(probe.y)) =>
              answer.x.value # answer.y.value

\* the same address written in upper case without 0x and in lower case
\* with it
C25_Witness ==
    /\ answer.kind = "addresses"
    /\ probe.x.type = "str" /\ probe.y.type = "str"
    /\ ~probe.x.prefixed /\ probe.y.prefixed
    /\ probe.x.digits # probe.y.digits
    /\ \E i \in 1..Len(probe.x.digits) : probe.x.digits[i] = "A"
    /\ answer.x.ok /\ answer.y.ok
    /\ answer.x.value = answer.y.value

\* C26: a Calldata is made exactly from a str that starts with 0x, never
\* from a str without it nor from bytes, and holds that string.
C26_CalldataPrefix ==
    answer.kind = "calldata" =>
        /\ answer.made.ok <=> (probe.arg.type = "str" /\ StartsWith0x(probe.arg.chars))
        /\ answer.made.ok =>
              /\ answer.made.value = probe.arg.chars
              /\ answer.made.value[1] = "0" /\ answer.made.value[2] = "x"

\* bytes that start with 0x are rejected all the same
C26_Witness ==
    /\ answer.kind = "calldata"
    /\ probe.arg.type = "bytes"
    /\ StartsWith0x(probe.arg.chars)
    /\ ~answer.made.ok

\* C31: a submission priced by a DefaultGasPrice or a FixedGasPrice calls
\* _func once in all, however many passes it makes; any submission has
\* called _func at most once more than it has seen the price change from
\* one pass to the next.
C31_BroadcastsBoundedByPriceChanges ==
    \A t \in Tasks :
        /\ Len(attempts[t]) <= 1 + priceChanges[t]
        /\ GasPriceOf(kwargs[t]).kind \in {"Default", "Fixed"} =>
              /\ priceChanges[t] = 0
              /\ Len(attempts[t]) <= 1
              /\ pc[t] = "sleep" => Len(attempts[t]) = 1

\* a transaction at a fixed price, sent once and still pending when the
\* clock has run out
C31_Witness ==
    \E t \in Tasks :
        /\ GasPriceOf(kwargs[t]).kind = "Fixed"
        /\ now = MaxTime /\ initial_time[t] = 0
        /\ pc[t] = "sleep"
        /\ polled[t] # <<>>
        /\ MinedOf(t) = {}
        /\ Len(attempts[t]) = 1

\* the hashes of the _func calls that the node took in, in the order of
\* the calls
RECURSIVE AcceptedHashes(_)
AcceptedHashes(list) ==
    IF list = <<>> THEN <<>>
    ELSE (IF list[1].tx_hash # None THEN <<list[1].tx_hash>> ELSE <<>>)
             \o AcceptedHashes(Tail(list))

\* C32: tx_hashes only grows at its end; it holds the hashes of the _func
\* calls that returned one, in the order of the calls, and a call that
\* raised leaves it as it was; only hashes of the list are queried, and a
\* Receipt returned is that of a hash of the list.
C32_AttemptListAppendOnly ==
    [][\A t \in Tasks :
          /\ IsPrefix(tx_hashes[t], tx_hashes'[t])
          /\ tx_hashes'[t] = AcceptedHashes(attempts'[t])
          /\ (Attempted(t) /\ Last(attempts'[t]).tx_hash = None) =>
                tx_hashes'[t] = tx_hashes[t]
          /\ \A i \in 1..Len(polled'[t]) :
                \E j \in 1..Len(tx_hashes'[t]) : polled'[t][i] = tx_hashes'[t][j]
          /\ result'[t].kind = "Receipt" =>
                \E j \in 1..Len(tx_hashes'[t]) :
                    result'[t].transaction_hash = tx_hashes'[t][j]]_vars

\* a call that raised between two that were taken in, and the Receipt of
\* the later one
C32_Witness ==
    \E t \in Tasks :
        /\ Len(attempts[t]) = 3
        /\ attempts[t][2].tx_hash = None
        /\ Len(tx_hashes[t]) = 2
        /\ result[t].kind = "Receipt"
        /\ result[t].transaction_hash = tx_hashes[t][2]

\* C33, as stated: get_offer returns None only for an id at which the
\* contract holds no active offer at the time of the call.
C33_Original ==
    [][(CallStep /\ call'.op = "get_offer" /\ call'.offer = NoneOffer) =>
          call'.id \notin ActiveIds]_vars

\* C34: _none_offers is empty at first and only grows; an id enters it only
\* in a call that read it from the contract and found it not active; an
\* offer that get_offer returns was read from the contract in that call and
\* its id is not in _none_offers.
C34_CacheAppendOnly ==
    /\ none_offers = {}
    /\ [][/\ none_offers \subseteq none_offers'
          /\ \A id \in none_offers' \ none_offers :
                /\ CallStep
                /\ \E i \in 1..Len(call'.reads) : call'.reads[i] = id
                /\ id \notin ActiveIds
          /\ (CallStep /\ call'.op = "get_offer" /\ call'.offer # NoneOffer) =>
                /\ call'.reads = <<call'.id>>
                /\ call'.id \notin none_offers'
                /\ call'.offer = OfferInfo(call'.id, offers[call'.id])
          /\ (CallStep /\ call'.op = "active_offers") =>
                \A i \in 1..Len(call'.list) :
                    call'.list[i].offer_id \notin none_offers']_vars

\* an offer returned a second time, read from the contract again after a
\* part of it was taken, with other ids in _none_offers
C34_Witness ==
    /\ call.op = "get_offer"
    /\ call.offer # NoneOffer
    /\ call.offer.sell_how_much = 1
    /\ call.offer.sell_which_token = "0xaa"
    /\ call.reads = <<call.id>>
    /\ none_offers # {}
    /\ call.id \notin none_offers

\* the active offers of the contract, in id order, as OfferInfo
BookOf(c) ==
    LET Active(i) == c[i].active
        ids == SelectSeq([i \in 1..Len(c) |-> i], Active)
    IN [k \in 1..Len(ids) |-> OfferInfo(ids[k], c[ids[k]])]

\* C35: make() rejects an amount that is not positive and a negative pos;
\* with pos left out the descriptor carries what position() gives over the
\* active offers of the moment; with a pos >= 0 it carries that pos and no
\* offer is read; in every case nothing is broadcast.
C35_MakeBuildsDescriptor ==
    call.op = "make" =>
        /\ chain = <<>>
        /\ \A t \in Tasks : attempts[t] = <<>> /\ pc[t] = "absent"
        /\ IF candidate.have_amount <= 0 \/ candidate.want_amount <= 0
              \/ (probe.pos.given /\ probe.pos.value < 0)
           THEN answer.kind = "AssertionError" /\ call.reads = <<>>
           ELSE /\ answer.kind = "Transact"
                /\ answer.function = "offer"
                /\ answer.have_amount = candidate.have_amount
                /\ answer.have_token = candidate.have_token
                /\ answer.want_amount = candidate.want_amount
                /\ answer.want_token = candidate.want_token
                /\ IF probe.pos.given
                   THEN answer.pos = probe.pos.value /\ call.reads = <<>>
                   ELSE /\ answer.pos = PositionOf(BookOf(offers), candidate)
                        /\ {call.reads[i] : i \in 1..Len(call.reads)} = 1..Len(offers)

\* an explicit pos that differs from what position() would give over a
\* book with an eligible offer, passed through without a read
C35_Witness ==
    /\ call.op = "make"
    /\ answer.kind = "Transact"
    /\ probe.pos.given
    /\ answer.pos = 2
    /\ call.reads = <<>>
    /\ PositionOf(BookOf(offers), candidate) = 1

\* the logs whose first topic is the Transfer signature, in log order
TransferLogs(entries) ==
    LET First(l) == l.topics # <<>> /\ Head(l.topics) = TransferTopic
    IN SelectSeq(entries, First)

\* C36: a Receipt is successful exactly when the logs are not null and not
\* empty; its transfers are, in log order, those of the logs whose first
\* topic is the Transfer signature, and none when it is not successful.
C36_ReceiptDecoding ==
    answer.kind = "Receipt" =>
        LET logs == probe.receipt.logs
            expected == TransferLogs(logs.entries)
        IN /\ answer.successful = (~logs.null /\ logs.entries # <<>>)
           /\ ~answer.successful => answer.transfers = <<>>
           /\ Len(answer.transfers) = Len(expected)
           /\ \A i \in 1..Len(expected) : answer.transfers[i].value = expected[i].data

\* two Transfer logs around a log that carries the signature as its second
\* topic: two transfers, in the order of the logs
C36_Witness ==
    /\ answer.kind = "Receipt"
    /\ answer.successful
    /\ Len(probe.receipt.logs.entries) = 3
    /\ probe.receipt.logs.entries[2].topics = <<OtherTopic, TransferTopic>>
    /\ Len(answer.transfers) = 2
    /\ answer.transfers[1].value = 2
    /\ answer.transfers[2].value = 1

\* C38: perform() calls the next strategy, once, and returns its result as
\* it is exactly when the auction sells and buys the configured tokens;
\* otherwise the next strategy is not called and the result has forget set.
C38_DelegatesIffPairMatches ==
    answer.kind = "performed" =>
        IF /\ probe.auction.selling = probe.self.selling_token
           /\ probe.auction.buying = probe.self.buying_token
        THEN answer.next_calls = 1 /\ answer.ret = probe.next_result
        ELSE answer.next_calls = 0 /\ answer.ret.forget = TRUE

\* the selling token is the configured one, the buying token is not: the
\* next strategy, which would have kept the auction, is not asked
C38_Witness ==
    /\ answer.kind = "performed"
    /\ probe.auction.selling = probe.self.selling_token
    /\ probe.auction.buying # probe.self.buying_token
    /\ probe.next_result.forget = FALSE
    /\ answer.next_calls = 0
    /\ answer.ret.forget = TRUE

\* a call has just touched the registry
RegistryStep == registryCall'.tick # registryCall.tick

\* C37: the registry only grows: a subscription and a past-events query
\* each append their thread, and nothing takes a thread out;
\* stop_all_filter_threads calls stop_watching on every registered thread,
\* in order, whichever of them raise, and returns without an error.
C37_RegistryGrowsStopAllSwallows ==
    [][/\ IsPrefix(filter_threads, filter_threads')
       /\ (RegistryStep /\ registryCall'.op \in {"on", "pastEvents"}) =>
             /\ Len(filter_threads') = Len(filter_threads) + 1
             /\ Last(filter_threads').kind = registryCall'.op
       /\ (RegistryStep /\ registryCall'.op = "stop_all") =>
             /\ filter_threads' = filter_threads
             /\ registryCall'.calls = [i \in 1..Len(filter_threads) |-> i]
             /\ ~registryCall'.raised
             /\ \A i \in 1..Len(filter_threads) :
                   ~filter_threads[i].faulty => i \in stoppedThreads']_vars

\* three threads, the first of which raises when stopped: the two after
\* it have been stopped all the same
C37_Witness ==
    /\ registryCall.op = "stop_all"
    /\ Len(filter_threads) = 3
    /\ filter_threads[1].faulty
    /\ filter_threads[3].kind = "pastEvents"
    /\ registryCall.calls = <<1, 2, 3>>
    /\ stoppedThreads = {2, 3}
    /\ ~registryCall.raised

====
